---- MODULE Spec2Model ----
(***************************************************************************)
(* heygpt: the conversation/session engine of src/src/main.rs.             *)
(*                                                                         *)
(* Text that the code inspects character by character (message content,    *)
(* input lines) is a sequence of one-character strings; a role, which the  *)
(* code only concatenates and compares, is a string.                       *)
(***************************************************************************)
EXTENDS Naturals, Sequences, FiniteSets, TLC

VARIABLES
    options,        \* Session.options: [stream, system, prompt]
    is_stdin,       \* Session.is_stdin
    is_stdout,      \* Session.is_stdout
    messages,       \* Session.messages
    spinner,        \* Session.spinner: TRUE = Some(Spinner), FALSE = None
    pc,             \* where the single thread of control is suspended
    full_message,   \* do_stream_request's accumulator
    request,        \* Request.messages of the request in flight / last sent
    nevents,        \* events taken from the EventSource of this request
    turns,          \* requests dispatched so far
    deltas,         \* history: the deltas this request's stream delivered
    pre,            \* history: the conversation when the current turn began
    ret,            \* history: outcome of the last operation
    out,            \* history: response content written to stdout this turn
    reports,        \* history: ERROR reports printed since the turn began
    event,          \* history: what the transport last delivered to this request
    response,       \* history: status and body of this request's batch response
    overlap         \* history: response text was written while the spinner showed

vars == <<options, is_stdin, is_stdout, messages, spinner, pc, full_message,
          request, nevents, turns, deltas, pre, ret, out, reports, event,
          response, overlap>>

---------------------------------------------------------------------------
(* Bounds of the model *)

\* requests dispatched in one interactive session
MaxTurns == 2
\* non-terminal events one EventSource delivers, reducer runs
MaxEvents == 2
\* delta events of one stream in an interactive session or a one-shot run
MaxSessionEvents == 1

---------------------------------------------------------------------------
(* Text *)

NL == "\n"
SP == " "
BS == "\\"

None == [none |-> TRUE]
Some(v) == [some |-> v]
IsSome(o) == "some" \in DOMAIN o

\* char::is_whitespace, on the characters the model uses
IsWhitespace(c) == c \in {NL, SP}

\* str::starts_with(char)
StartsWith(s, c) == Len(s) > 0 /\ s[1] = c

RECURSIVE TrimStart(_)
\* str::trim_start: drops every leading whitespace character
TrimStart(s) ==
    IF Len(s) > 0 /\ IsWhitespace(s[1]) THEN TrimStart(Tail(s)) ELSE s

\* str::strip_prefix(char)
StripPrefix(s, c) == IF StartsWith(s, c) THEN Some(Tail(s)) ELSE None

\* model.rs Message, and Message::default()
Message(r, c) == [role |-> r, content |-> c]
DefaultMessage == Message("", <<>>)

RECURSIVE Join(_, _)
\* [String]::join(sep)
Join(strs, sep) ==
    IF Len(strs) = 0 THEN <<>>
    ELSE IF Len(strs) = 1 THEN strs[1]
    ELSE strs[1] \o sep \o Join(Tail(strs), sep)

---------------------------------------------------------------------------
(* Conversation *)

SystemRole == "system"
UserRole == "user"

\* Vec::pop, dropping the popped value
Pop(msgs) == IF Len(msgs) = 0 THEN msgs ELSE SubSeq(msgs, 1, Len(msgs) - 1)

\* Vec::truncate
Truncate(msgs, n) == IF n >= Len(msgs) THEN msgs ELSE SubSeq(msgs, 1, n)

RECURSIVE RetractScanStopsShort(_, _, _)
\* retract's loop with the break taken before the user message is counted
RetractScanStopsShort(msgs, i, count) ==
    IF i = 0 THEN count
    ELSE IF msgs[i].role = UserRole THEN count
    ELSE RetractScanStopsShort(msgs, i - 1, count + 1)

RECURSIVE RetractScan(_, _, _)
\* retract's loop: walk the messages from the last one back, counting, and
\* stop right after counting a message whose role is "user"
RetractScan(msgs, i, count) ==
    IF i = 0 THEN count
    ELSE IF msgs[i].role = UserRole THEN count + 1
    ELSE RetractScan(msgs, i - 1, count + 1)

RetractCount(msgs) == RetractScan(msgs, Len(msgs), 0)

\* Session::retract: the result and the messages it leaves
Retract(msgs) ==
    LET count == RetractCount(msgs) IN
    IF count = 0
    THEN [ok |-> FALSE, messages |-> msgs]
    ELSE [ok |-> TRUE, messages |-> Truncate(msgs, Len(msgs) - count)]

\* Session::is_interactive
IsInteractive == options.prompt = <<>> /\ is_stdout /\ is_stdin

---------------------------------------------------------------------------
(* Inputs *)

Hi == <<"h", "i">>

\* --system absent, --system given bare, --system="T"
SystemOptions == {None, Some(<<>>), Some(<<"T">>)}
\* trailing prompt arguments: none, or two words
PromptOptions == {<<>>, <<<<"h">>, <<"i">>>>}
\* what a piped standard input holds
StdinTexts == {<<>>, Hi}
\* lines typed at the interactive prompt
PlainLines == {Hi}
HelpLines == {<<BS, "?">>, <<BS, "h", "e", "l", "p">>}
BackLines == {<<BS, "b">>, <<BS, "b", "a", "c", "k">>}
HistoryLines == {<<BS, "h">>, <<BS, "h", "i", "s", "t", "o", "r", "y">>}
OtherLines == {<<BS, "x">>, <<BS>>}
InputLines == {<<>>} \cup PlainLines \cup HelpLines \cup BackLines
                 \cup HistoryLines \cup OtherLines

\* the match with "h" falling into the arm of "b"
CommandOfConfusesH(cmd) ==
    IF cmd \in {<<"?">>, <<"h", "e", "l", "p">>} THEN "help"
    ELSE IF cmd \in {<<"b">>, <<"h">>, <<"b", "a", "c", "k">>} THEN "back"
    ELSE IF cmd \in {<<"h", "i", "s", "t", "o", "r", "y">>} THEN "history"
    ELSE "unknown"

\* run_command's match on the command text
CommandOf(cmd) ==
    IF cmd \in {<<"?">>, <<"h", "e", "l", "p">>} THEN "help"
    ELSE IF cmd \in {<<"b">>, <<"b", "a", "c", "k">>} THEN "back"
    ELSE IF cmd \in {<<"h">>, <<"h", "i", "s", "t", "o", "r", "y">>} THEN "history"
    ELSE "unknown"

NoErr == ""
\* what the last operation was and what it returned
Outcome(op, ok, msg, err) == [op |-> op, ok |-> ok, msg |-> msg, err |-> err]
\* the way a request ended, kept in the outcome's err field of a success
ViaDone == "[DONE]"
ViaEnd == "end of stream"
ViaBatch == "batch"

\* the body of a response that has not arrived
NoBody == [tag |-> "none", type |-> "", message |-> "", choices |-> <<>>]

\* Session::new, for every command line and terminal main can hand it
Init ==
    /\ options \in [stream : BOOLEAN, system : SystemOptions, prompt : PromptOptions]
    /\ is_stdin \in BOOLEAN
    /\ is_stdout \in BOOLEAN
    /\ messages = <<>>
    /\ spinner = FALSE
    /\ pc = "main"
    /\ full_message = DefaultMessage
    /\ request = <<>>
    /\ nevents = 0
    /\ turns = 0
    /\ deltas = <<>>
    /\ pre = <<>>
    /\ ret = Outcome("none", TRUE, DefaultMessage, NoErr)
    /\ out = <<>>
    /\ reports = 0
    /\ event = "none"
    /\ response = [status |-> 0, body |-> NoBody]
    /\ overlap = FALSE

---------------------------------------------------------------------------
(* complete_and_print, up to the first await *)

\* a request built from the newest message alone
DispatchLastOnly(msgs) ==
    /\ request' = <<msgs[Len(msgs)]>>
    /\ spinner' = IF is_stdout THEN TRUE ELSE spinner
    /\ full_message' = DefaultMessage
    /\ nevents' = 0
    /\ deltas' = <<>>
    /\ out' = <<>>
    /\ turns' = turns + 1
    /\ event' = "none"
    /\ response' = [status |-> 0, body |-> NoBody]
    /\ pc' = IF options.stream THEN "stream" ELSE "batch"

\* builds the request from a copy of the messages, shows the spinner when
\* stdout is a terminal and enters do_stream_request or do_non_stream_request
Dispatch(msgs) ==
    /\ request' = msgs
    /\ spinner' = IF is_stdout THEN TRUE ELSE spinner
    /\ full_message' = DefaultMessage
    /\ nevents' = 0
    /\ deltas' = <<>>
    /\ out' = <<>>
    /\ turns' = turns + 1
    /\ event' = "none"
    /\ response' = [status |-> 0, body |-> NoBody]
    /\ pc' = IF options.stream THEN "stream" ELSE "batch"

---------------------------------------------------------------------------
(* run_one_shot *)

SystemSeed(msgs) ==
    IF IsSome(options.system)
    THEN Append(msgs, Message(SystemRole, options.system.some))
    ELSE msgs

\* the prompt is on the command line, or is read whole from a piped stdin
OneShotPrompt(prompt) ==
    /\ pc = "main" /\ ~IsInteractive
    /\ \/ options.prompt # <<>> /\ prompt = Join(options.prompt, <<SP>>)
       \/ options.prompt = <<>> /\ ~is_stdin /\ prompt \in StdinTexts
    /\ pre' = messages
    /\ messages' = Append(SystemSeed(messages), Message(UserRole, prompt))
    /\ Dispatch(messages')
    /\ reports' = 0
    /\ UNCHANGED <<options, is_stdin, is_stdout, overlap, ret>>

\* read_to_string fails on the piped stdin
OneShotStdinError ==
    /\ pc = "main" /\ ~IsInteractive
    /\ options.prompt = <<>> /\ ~is_stdin
    /\ pc' = "exit_err"
    /\ ret' = Outcome("run", FALSE, DefaultMessage, "io")
    /\ UNCHANGED <<options, is_stdin, is_stdout, event, response, overlap, messages, spinner, full_message,
                   request, nevents, turns, deltas, pre, out, reports>>

\* the missing prompt noticed only after the system message was pushed
OneShotMissingPromptAfterSeed ==
    /\ pc = "main" /\ ~IsInteractive
    /\ options.prompt = <<>> /\ is_stdin
    /\ pc' = "exit_err"
    /\ messages' = SystemSeed(messages)
    /\ ret' = Outcome("run", FALSE, DefaultMessage, "Prompt is required")
    /\ UNCHANGED <<options, is_stdin, is_stdout, event, response, overlap, spinner,
                   full_message, request, nevents, turns, deltas, pre, out, reports>>

\* bail!("Prompt is required")
OneShotMissingPrompt ==
    /\ pc = "main" /\ ~IsInteractive
    /\ options.prompt = <<>> /\ is_stdin
    /\ pc' = "exit_err"
    /\ ret' = Outcome("run", FALSE, DefaultMessage, "Prompt is required")
    /\ UNCHANGED <<options, is_stdin, is_stdout, event, response, overlap, messages, spinner, full_message,
                   request, nevents, turns, deltas, pre, out, reports>>

RunOneShot ==
    \/ \E prompt \in StdinTexts \cup {Join(options.prompt, <<SP>>)} : OneShotPrompt(prompt)
    \/ OneShotStdinError
    \/ OneShotMissingPrompt

---------------------------------------------------------------------------
(* run_interactive and read_prompt *)

ReadPcs == {"read_system", "read_user"}

\* run_interactive up to its first readline: the system prompt given on the
\* command line is pushed, a bare --system is read interactively first
RunInteractive ==
    /\ pc = "main" /\ IsInteractive
    /\ IF IsSome(options.system) /\ options.system.some # <<>>
       THEN /\ messages' = Append(messages, Message(SystemRole, options.system.some))
            /\ pc' = "read_user"
       ELSE /\ messages' = messages
            /\ pc' = IF IsSome(options.system) THEN "read_system" ELSE "read_user"
    /\ UNCHANGED <<options, is_stdin, is_stdout, event, response, overlap, spinner, full_message, request,
                   nevents, turns, deltas, pre, ret, out, reports>>

\* an empty line is ignored and the prompt is shown again
ReadEmpty ==
    /\ pc \in ReadPcs
    /\ ret' = Outcome("empty", TRUE, DefaultMessage, NoErr)
    /\ UNCHANGED <<options, is_stdin, is_stdout, event, response, overlap, messages, spinner, pc, full_message,
                   request, nevents, turns, deltas, pre, out, reports>>

\* run_command: only "back" touches the messages
RunCommand(cmd) ==
    LET name == CommandOf(cmd)
        r == Retract(messages)
    IN  IF name = "back"
        THEN /\ messages' = r.messages
             /\ ret' = Outcome("retract", r.ok, DefaultMessage,
                               IF r.ok THEN NoErr ELSE "No message to retract")
        ELSE /\ messages' = messages
             /\ ret' = Outcome(name, TRUE, DefaultMessage, NoErr)

\* a line that starts with a backslash is a command; the prompt is shown again
ReadCommand(line) ==
    /\ pc \in ReadPcs
    /\ line # <<>> /\ IsSome(StripPrefix(line, BS))
    /\ RunCommand(StripPrefix(line, BS).some)
    /\ UNCHANGED <<options, is_stdin, is_stdout, event, response, overlap, spinner, pc, full_message,
                   request, nevents, turns, deltas, pre, out, reports>>

\* the line read for the role "system" becomes the system message
ReadSystemPrompt(line) ==
    /\ pc = "read_system"
    /\ line # <<>> /\ ~IsSome(StripPrefix(line, BS))
    /\ messages' = Append(messages, Message(SystemRole, line))
    /\ pc' = "read_user"
    /\ ret' = Outcome("system", TRUE, DefaultMessage, NoErr)
    /\ UNCHANGED <<options, is_stdin, is_stdout, event, response, overlap, spinner, full_message, request,
                   nevents, turns, deltas, pre, out, reports>>

\* the line read for the role "user" is pushed and the request is sent
ReadUserPrompt(line) ==
    /\ pc = "read_user" /\ turns < MaxTurns
    /\ line # <<>> /\ ~IsSome(StripPrefix(line, BS))
    /\ pre' = messages
    /\ messages' = Append(messages, Message(UserRole, line))
    /\ Dispatch(messages')
    /\ reports' = 0
    /\ ret' = Outcome("prompt", TRUE, DefaultMessage, NoErr)
    /\ UNCHANGED <<options, is_stdin, is_stdout, overlap>>

\* CTRL-C or CTRL-D: read_prompt returns None and the session ends normally
ReadInterrupted ==
    /\ pc \in ReadPcs
    /\ pc' = "exit_ok"
    /\ ret' = Outcome("eof", TRUE, DefaultMessage, NoErr)
    /\ UNCHANGED <<options, is_stdin, is_stdout, event, response, overlap, messages, spinner, full_message,
                   request, nevents, turns, deltas, pre, out, reports>>

\* any other readline error is bailed out of run_interactive
ReadError ==
    /\ pc \in ReadPcs
    /\ pc' = "exit_err"
    /\ ret' = Outcome("run", FALSE, DefaultMessage, "Readline error")
    /\ UNCHANGED <<options, is_stdin, is_stdout, event, response, overlap, messages, spinner, full_message,
                   request, nevents, turns, deltas, pre, out, reports>>

ReadPrompt ==
    \/ ReadEmpty
    \/ \E line \in InputLines : ReadCommand(line)
    \/ \E line \in InputLines : ReadSystemPrompt(line)
    \/ \E line \in InputLines : ReadUserPrompt(line)
    \/ ReadInterrupted
    \/ ReadError

---------------------------------------------------------------------------
(* how a turn ends: the match in run_interactive, the `?` in run_one_shot *)

\* complete_and_print returned Ok(m)
TurnOk(m, via) ==
    /\ ret' = Outcome("complete", TRUE, m, via)
    /\ reports' = reports
    /\ IF IsInteractive
       THEN messages' = Append(messages, m) /\ pc' = "read_user"
       ELSE messages' = messages /\ pc' = "exit_ok"

\* the Err arm without the pop of the user message
TurnErrNoRollback(e) ==
    /\ ret' = Outcome("complete", FALSE, DefaultMessage, e)
    /\ messages' = messages
    /\ IF IsInteractive
       THEN reports' = reports + 1 /\ pc' = "read_user"
       ELSE reports' = reports /\ pc' = "exit_err"

\* complete_and_print returned Err(e)
TurnErr(e) ==
    /\ ret' = Outcome("complete", FALSE, DefaultMessage, e)
    /\ IF IsInteractive
       THEN /\ messages' = Pop(messages)
            /\ reports' = reports + 1
            /\ pc' = "read_user"
       ELSE /\ messages' = messages
            /\ reports' = reports
            /\ pc' = "exit_err"

\* a panic unwinds through main: the process ends, nothing is rolled back
TurnPanic(e) ==
    /\ ret' = Outcome("panic", FALSE, DefaultMessage, e)
    /\ reports' = reports
    /\ messages' = messages
    /\ pc' = "panic"

---------------------------------------------------------------------------
(* do_stream_request *)

\* DeltaMessage
Delta(r, c) == [role |-> r, content |-> c]

\* the deltas a stream may carry in a session
SessionDeltas ==
    { Delta(Some("assistant"), Some(<<NL, "H">>)),
      Delta(Some(UserRole), None) }

\* the deltas a stream may carry in a reducer run
ReducerDeltas ==
    { Delta(r, c) : r \in {None, Some("assistant"), Some(UserRole)},
                    c \in {None, Some(<<>>), Some(<<NL>>), Some(<<"H">>),
                           Some(<<NL, SP, "H">>)} }

\* "Sometimes the response starts with a newline. Strip it here."
StripLeading(content, acc) ==
    IF StartsWith(content, NL) /\ acc = <<>> THEN TrimStart(content) ELSE content

\* the role is pushed onto the accumulator's role
PushRole(full, delta) ==
    IF IsSome(delta.role) THEN full.role \o delta.role.some ELSE full.role

\* the content (stripped when the accumulator is still empty) is pushed
PushContent(full, delta) ==
    IF IsSome(delta.content)
    THEN full.content \o StripLeading(delta.content.some, full.content)
    ELSE full.content

\* the fragment written as received, its leading newline kept
PrintedRaw(full, delta) ==
    IF IsSome(delta.content) THEN delta.content.some ELSE <<>>

\* what print!("{}", content) writes for this delta
Printed(full, delta) ==
    IF IsSome(delta.content)
    THEN StripLeading(delta.content.some, full.content)
    ELSE <<>>

\* the spinner left as it is
ClearSpinnerKept(sp) == sp

\* self.spinner = None
ClearSpinner(sp) == FALSE

\* Event::Open: logged only
StreamOpen(max) ==
    /\ pc = "stream" /\ nevents < max
    /\ event' = "open"
    /\ spinner' = ClearSpinner(spinner)
    /\ nevents' = nevents + 1
    /\ UNCHANGED <<options, is_stdin, is_stdout, messages, pc, full_message, request,
                   turns, deltas, pre, ret, out, reports, response, overlap>>

\* an Event::Message whose data decodes and holds a first choice: the role
\* label (interactive only) and the content are written, then accumulated
StreamMessage(delta, max) ==
    /\ pc = "stream" /\ nevents < max
    /\ event' = "message"
    /\ spinner' = ClearSpinner(spinner)
    /\ nevents' = nevents + 1
    /\ full_message' = Message(PushRole(full_message, delta),
                               PushContent(full_message, delta))
    /\ out' = out \o Printed(full_message, delta)
    /\ overlap' = (overlap \/ (spinner' /\ ( (IsInteractive /\ IsSome(delta.role))
                                            \/ Printed(full_message, delta) # <<>> )))
    /\ deltas' = Append(deltas, delta)
    /\ UNCHANGED <<options, is_stdin, is_stdout, messages, pc, request, turns,
                   pre, ret, reports, response>>

\* [DONE] taken for an ordinary event: the loop goes on reading
StreamDoneContinues ==
    /\ pc = "stream"
    /\ event' = "done"
    /\ spinner' = ClearSpinner(spinner)
    /\ overlap' = (overlap \/ spinner')
    /\ UNCHANGED <<options, is_stdin, is_stdout, messages, pc, full_message, request,
                   nevents, turns, deltas, pre, ret, out, reports, response>>

\* an Event::Message whose data is "[DONE]": println!(), break, Ok(full_message)
StreamDone ==
    /\ pc = "stream"
    /\ event' = "done"
    /\ spinner' = ClearSpinner(spinner)
    /\ overlap' = (overlap \/ spinner')
    /\ TurnOk(full_message, ViaDone)
    /\ UNCHANGED <<options, is_stdin, is_stdout, full_message, request, nevents,
                   turns, deltas, pre, out, response>>

\* the end of the stream without [DONE] taken for a failure
StreamEndIsError ==
    /\ pc = "stream"
    /\ event' = "end"
    /\ TurnErr("incomplete stream")
    /\ UNCHANGED <<options, is_stdin, is_stdout, spinner, full_message, request,
                   nevents, turns, deltas, pre, out, response, overlap>>

\* es.next() yields None: the loop ends, Ok(full_message)
StreamEnd ==
    /\ pc = "stream"
    /\ event' = "end"
    /\ TurnOk(full_message, ViaEnd)
    /\ UNCHANGED <<options, is_stdin, is_stdout, spinner, full_message, request,
                   nevents, turns, deltas, pre, out, response, overlap>>

\* an Event::Message whose data serde_json::from_str rejects: `?`
StreamMalformed ==
    /\ pc = "stream"
    /\ event' = "malformed"
    /\ spinner' = ClearSpinner(spinner)
    /\ TurnErr("decode")
    /\ UNCHANGED <<options, is_stdin, is_stdout, full_message, request, nevents,
                   turns, deltas, pre, out, response, overlap>>

\* an Event::Message whose choices are empty: next().unwrap() panics
StreamNoChoices ==
    /\ pc = "stream"
    /\ event' = "no choices"
    /\ spinner' = ClearSpinner(spinner)
    /\ TurnPanic("unwrap on None")
    /\ UNCHANGED <<options, is_stdin, is_stdout, full_message, request, nevents,
                   turns, deltas, pre, out, response, overlap>>

\* the EventSource yields Err: es.close(), Err(err)
StreamError ==
    /\ pc = "stream"
    /\ event' = "error"
    /\ spinner' = ClearSpinner(spinner)
    /\ TurnErr("transport")
    /\ UNCHANGED <<options, is_stdin, is_stdout, full_message, request, nevents,
                   turns, deltas, pre, out, response, overlap>>

---------------------------------------------------------------------------
(* do_non_stream_request *)

\* StatusCode::OK
StatusOK == 200
StatusCodes == {200, 201, 401}

\* a response body: an error envelope, a ResponseMessage, or neither
Body(tag, type, message, choices) ==
    [tag |-> tag, type |-> type, message |-> message, choices |-> choices]

ErrorBodies == {Body("error", "invalid_request_error", "invalid key", <<>>)}
ResponseBodies ==
    { Body("response", "", "", cs) :
        cs \in { <<>>,
                 <<Message("assistant", <<NL, "H">>)>>,
                 <<Message(UserRole, <<"H">>)>>,
                 <<Message(SystemRole, <<"H">>), Message("assistant", <<"B">>)>> } }
GarbageBodies == {Body("garbage", "", "", <<>>)}
Bodies == ErrorBodies \cup ResponseBodies \cup GarbageBodies

\* response.json::<WrappedApiError>() succeeds
DecodesAsError(body) == body.tag = "error"
\* response.json::<ResponseMessage>() succeeds
DecodesAsResponse(body) == body.tag = "response"

\* the batch path's strip of the message content
StripBatch(content) ==
    IF StartsWith(content, NL) THEN TrimStart(content) ELSE content

\* req.send() fails: `?` returns before the spinner is cleared
BatchSendError ==
    /\ pc = "batch"
    /\ event' = "send error"
    /\ TurnErr("transport")
    /\ UNCHANGED <<options, is_stdin, is_stdout, spinner, full_message, request,
                   nevents, turns, deltas, pre, out, response, overlap>>

\* req.send() returns a response: the spinner is cleared
BatchReceive(status, body) ==
    /\ pc = "batch"
    /\ event' = "response"
    /\ response' = [status |-> status, body |-> body]
    /\ spinner' = ClearSpinner(spinner)

\* a status other than 200 whose body is an error envelope
BatchApiError(status, body) ==
    /\ BatchReceive(status, body)
    /\ status # StatusOK /\ DecodesAsError(body)
    /\ TurnErr(body.type \o ": " \o body.message)
    /\ UNCHANGED <<options, is_stdin, is_stdout, full_message, request, nevents,
                   turns, deltas, pre, out, overlap>>

\* a body that does not decode as what the status calls for: `?`
BatchUndecodable(status, body) ==
    /\ BatchReceive(status, body)
    /\ \/ status # StatusOK /\ ~DecodesAsError(body)
       \/ status = StatusOK /\ ~DecodesAsResponse(body)
    /\ TurnErr("decode")
    /\ UNCHANGED <<options, is_stdin, is_stdout, full_message, request, nevents,
                   turns, deltas, pre, out, overlap>>

\* status 200 and no choices: response.choices[0] panics
BatchNoChoices(status, body) ==
    /\ BatchReceive(status, body)
    /\ status = StatusOK /\ DecodesAsResponse(body) /\ body.choices = <<>>
    /\ TurnPanic("index out of bounds")
    /\ UNCHANGED <<options, is_stdin, is_stdout, full_message, request, nevents,
                   turns, deltas, pre, out, overlap>>

\* status 200: the first choice's message, stripped, printed and returned
BatchMessage(status, body) ==
    /\ BatchReceive(status, body)
    /\ status = StatusOK /\ DecodesAsResponse(body) /\ body.choices # <<>>
    /\ overlap' = (overlap \/ spinner')
    /\ LET message == Message(body.choices[1].role,
                              StripBatch(body.choices[1].content))
       IN  /\ out' = message.content
           /\ TurnOk(message, ViaBatch)
    /\ UNCHANGED <<options, is_stdin, is_stdout, full_message, request, nevents,
                   turns, deltas, pre>>

---------------------------------------------------------------------------
(* Specifications *)

StreamRequest(D, max) ==
    \/ StreamOpen(max)
    \/ \E delta \in D : StreamMessage(delta, max)
    \/ StreamDone
    \/ StreamEnd
    \/ StreamMalformed
    \/ StreamNoChoices
    \/ StreamError

NonStreamRequest ==
    \/ BatchSendError
    \/ \E status \in StatusCodes, body \in Bodies : BatchApiError(status, body)
    \/ \E status \in StatusCodes, body \in Bodies : BatchUndecodable(status, body)
    \/ \E status \in StatusCodes, body \in Bodies : BatchNoChoices(status, body)
    \/ \E status \in StatusCodes, body \in Bodies : BatchMessage(status, body)

\* a session, one-shot or interactive
Next ==
    \/ RunOneShot
    \/ RunInteractive
    \/ ReadPrompt
    \/ StreamRequest(SessionDeltas, MaxSessionEvents)
    \/ NonStreamRequest

Spec == Init /\ [][Next]_vars

\* one-shot streaming runs, with the reducer's richer streams
InitReducer == Init /\ options.stream /\ ~IsInteractive

NextReducer ==
    \/ RunOneShot
    \/ StreamRequest(ReducerDeltas, MaxEvents)

SpecReducer == InitReducer /\ [][NextReducer]_vars

---------------------------------------------------------------------------
(* Properties *)

\* the step that runs the retract command
RetractStep == \E line \in BackLines : ReadCommand(line)

SystemOnly(msgs) == Len(msgs) = 1 /\ msgs[1].role = SystemRole
HasUser(msgs) == \E i \in 1..Len(msgs) : msgs[i].role = UserRole
\* index of the most recent turn with role "user"
LastUser(msgs) ==
    CHOOSE i \in 1..Len(msgs) :
        /\ msgs[i].role = UserRole
        /\ \A j \in (i + 1)..Len(msgs) : msgs[j].role # UserRole

RECURSIVE RawContent(_)
\* the content fragments of a delta sequence, concatenated as they arrived
RawContent(ds) ==
    IF ds = <<>> THEN <<>>
    ELSE (IF IsSome(ds[1].content) THEN ds[1].content.some ELSE <<>>)
         \o RawContent(Tail(ds))

RECURSIVE RawRole(_)
\* the role fields of a delta sequence, concatenated as they arrived
RawRole(ds) ==
    IF ds = <<>> THEN ""
    ELSE (IF IsSome(ds[1].role) THEN ds[1].role.some ELSE "")
         \o RawRole(Tail(ds))

NoRole(ds) == \A i \in 1..Len(ds) : ~IsSome(ds[i].role)

\* a text without its first character when that character is a newline
WithoutLeadingNewline(s) == IF StartsWith(s, NL) THEN Tail(s) ELSE s

\* C1: retract on an empty conversation or on one that holds only a system
\* turn fails with NoMessageToRetract and leaves the conversation unchanged.
C1_RetractNothingFails ==
    [][(RetractStep /\ (messages = <<>> \/ SystemOnly(messages)))
        => (~ret'.ok /\ ret'.err = "No message to retract" /\ messages' = messages)]_vars

\* C2: when the stream ends in [DONE], the returned content is the
\* concatenation of all content fragments in arrival order, less one leading
\* newline when that newline is the first character contributed.
C2_DoneContentIsConcatenation ==
    (ret.op = "complete" /\ ret.ok /\ ret.err = ViaDone)
        => ret.msg.content = WithoutLeadingNewline(RawContent(deltas))

\* C3: in the interactive loop a transport error at any point of a stream
\* leaves the conversation as it was before the turn began.
C3_TransportErrorRestores ==
    (IsInteractive /\ options.stream /\ ret.op = "complete" /\ ~ret.ok
        /\ ret.err = "transport")
        => (messages = pre /\ pc = "read_user")

\* C3 witness: a transport error after a fragment was accumulated, in a
\* conversation that already held a system turn and an exchange.
C3_Witness ==
    /\ IsInteractive /\ options.stream
    /\ ret.op = "complete" /\ ~ret.ok /\ ret.err = "transport"
    /\ deltas # <<>> /\ full_message.content # <<>>
    /\ Len(pre) = 3

\* C4: a retract issued right after a successful turn restores the
\* conversation to what it was before the user turn and the reply were appended.
C4_RetractAfterTurnRestores ==
    [][(IsInteractive /\ ret.op = "complete" /\ ret.ok /\ RetractStep)
        => messages' = pre]_vars

\* C5: the returned message has role "assistant" when no delta carried a
\* role, and otherwise the concatenation of the roles the deltas carried.
C5_RoleDefaultsToAssistant ==
    (options.stream /\ ret.op = "complete" /\ ret.ok)
        => ret.msg.role = (IF NoRole(deltas) THEN "assistant" ELSE RawRole(deltas))

\* C6: whenever the loop prompts for input (after reporting an error or
\* after a reply), no progress indicator is active.
C6_SpinnerReleased == pc \in ReadPcs => ~spinner

\* C7: every failure of a turn in the interactive loop is caught: the
\* conversation is rolled back, one error is reported, the loop prompts again.
C7_FailuresAreCaught ==
    (IsInteractive /\ ret.op \in {"complete", "panic"} /\ ~ret.ok)
        => (pc = "read_user" /\ messages = pre /\ reports = 1)

\* C8: a turn with role "system" is only ever at index 0 of the conversation
\* (so there is at most one).
C8_SystemOnlyFirst ==
    \A i \in 1..Len(messages) : messages[i].role = SystemRole => i = 1

\* C9: when the conversation holds a user turn, retract succeeds and leaves
\* exactly the prefix before the most recent user turn.
C9_RetractCutsAtLastUser ==
    [][(RetractStep /\ HasUser(messages))
        => (ret'.ok /\ messages' = SubSeq(messages, 1, LastUser(messages) - 1))]_vars

\* C9 witness: a retract succeeded on the second of two exchanges of a
\* conversation with a system turn, removing a user turn and what followed.
C9_Witness ==
    /\ ret.op = "retract" /\ ret.ok
    /\ turns = 2 /\ Len(messages) = 3
    /\ messages[1].role = SystemRole /\ messages[2].role = UserRole

\* C10: a content fragment is appended unmodified, except that the single
\* newline at position 0 of the whole message is removed.
C10_OnlyFirstNewlineStripped ==
    [][(Len(deltas') = Len(deltas) + 1 /\ IsSome(deltas'[Len(deltas')].content))
        => LET c == deltas'[Len(deltas')].content.some
               removed == Len(full_message.content) + Len(c)
                            - Len(full_message'.content)
           IN  /\ removed \in {0, 1}
               /\ full_message'.content
                    = full_message.content \o SubSeq(c, removed + 1, Len(c))
               /\ removed = 1 => (RawContent(deltas) = <<>> /\ c[1] = NL)]_vars

\* an HTTP status of the 2xx class
IsSuccessStatus(status) == status \in 200..299

\* C11: in batch mode a 2xx response that holds a first choice yields that
\* message as the turn, and any other status with an error envelope fails
\* with the envelope's type and message and yields no turn.
C11_BatchStatusDecides ==
    (event = "response" /\ ret.op = "complete")
        => /\ (IsSuccessStatus(response.status)
                /\ DecodesAsResponse(response.body)
                /\ response.body.choices # <<>>)
               => (ret.ok /\ ret.msg.role = response.body.choices[1].role)
           /\ (~IsSuccessStatus(response.status) /\ DecodesAsError(response.body))
               => (/\ ~ret.ok
                   /\ ret.err = response.body.type \o ": " \o response.body.message
                   /\ (IsInteractive => messages = pre))

\* C12: an interactive turn that succeeds leaves the pre-turn conversation
\* followed by the user turn and the reply; one that fails in any way leaves
\* the pre-turn conversation; either way the loop prompts again.
C12_TurnCommitsPairOrNothing ==
    (IsInteractive /\ ret.op \in {"complete", "panic"})
        => /\ pc = "read_user"
           /\ ret.ok => (\E line \in PlainLines :
                            messages = pre \o <<Message(UserRole, line), ret.msg>>)
           /\ ~ret.ok => messages = pre

\* C13: one-shot mode with no prompt argument and a terminal as stdin fails
\* with the missing-prompt error; nothing was appended, nothing dispatched.
C13_MissingPromptFailsFirst ==
    (~IsInteractive /\ options.prompt = <<>> /\ is_stdin /\ pc # "main")
        => (/\ pc = "exit_err"
            /\ ret = Outcome("run", FALSE, DefaultMessage, "Prompt is required")
            /\ messages = <<>>
            /\ request = <<>> /\ turns = 0 /\ ~spinner)

\* C13 witness: the run failed for want of a prompt although a system
\* prompt was given on the command line.
C13_Witness ==
    /\ pc = "exit_err" /\ ret.err = "Prompt is required"
    /\ options.system = Some(<<"T">>)

\* C14: when the stream ends without [DONE] and without an error, what was
\* accumulated is returned as a success, and the interactive loop commits it
\* as the reply.
C14_EndOfStreamIsSuccess ==
    [][(pc = "stream" /\ event' = "end")
        => (/\ ret'.op = "complete" /\ ret'.ok /\ ret'.msg = full_message
            /\ IsInteractive => (/\ messages' = Append(messages, full_message)
                                 /\ pc' = "read_user"))]_vars

\* C14 witness: a stream that delivered content ended without [DONE] and
\* the accumulated message is the last turn of the conversation.
C14_Witness ==
    /\ IsInteractive /\ event = "end"
    /\ ret.op = "complete" /\ ret.ok
    /\ full_message.content # <<>>
    /\ messages # <<>> /\ messages[Len(messages)] = full_message

\* C15: once [DONE] or a transport error was observed, nothing more of that
\* stream is processed: the accumulator and the output stay as they are
\* until another request is sent.
C15_NothingAfterTerminalEvent ==
    [][(event \in {"done", "error"} /\ turns' = turns)
        => (/\ full_message' = full_message /\ out' = out
            /\ deltas' = deltas /\ nevents' = nevents
            /\ event' = event /\ pc' # "stream")]_vars

\* C15 witness: the loop prompts again after a stream that had delivered
\* content was cut by a transport error.
C15_Witness ==
    /\ event = "error" /\ deltas # <<>> /\ out # <<>>
    /\ pc = "read_user" /\ ret.op = "history"

\* C16: a line that starts with a backslash is never pushed as a turn and
\* never sends a request; help, history, unknown commands and empty lines
\* leave the conversation unchanged.
C16_CommandsStayLocal ==
    [][/\ ((\E line \in InputLines \ BackLines : ReadCommand(line)) \/ ReadEmpty)
           => messages' = messages
       /\ (\E line \in InputLines : ReadCommand(line))
           => (/\ Len(messages') <= Len(messages)
               /\ turns' = turns /\ request' = request /\ pc' = pc)]_vars

\* C16 witness: an unrecognized command was read while the conversation
\* held an exchange.
C16_Witness ==
    /\ ret.op = "unknown" /\ pc = "read_user"
    /\ Len(messages) >= 2 /\ turns >= 1

DispatchedPcs == {"stream", "batch"}

\* C17: while a request is in flight its message list is the conversation,
\* in order: the turns held before the prompt (the system turn first when
\* the session was seeded with one), then the user turn just appended.
C17_RequestIsConversation ==
    pc \in DispatchedPcs
        => /\ request = messages
           /\ request # <<>>
           /\ request[Len(request)].role = UserRole
           /\ SubSeq(request, 1, Len(request) - 1)
                = (IF IsInteractive THEN pre ELSE SystemSeed(<<>>))

\* C17 witness: the second request of a session with a system prompt is in
\* flight and carries the system turn, the first exchange and the new prompt.
C17_Witness ==
    /\ pc = "stream" /\ Len(request) = 4
    /\ request[1].role = SystemRole /\ request[4].role = UserRole

\* C18: no response text (role label, content fragment, final newline) is
\* written while the spinner is shown, neither while streaming nor in
\* batch mode.
C18_SpinnerGoneBeforeOutput ==
    /\ ~overlap
    /\ (pc \in DispatchedPcs /\ out # <<>>) => ~spinner

\* C18 witness: on a terminal, where the spinner was shown at dispatch,
\* response content has been written and the stream is still being read.
C18_Witness ==
    /\ is_stdout /\ pc = "stream" /\ turns >= 1
    /\ out # <<>> /\ ~spinner /\ ~overlap

\* C19: while a stream is consumed, and after it, the content written to
\* the output for this response is the accumulator's content, and the reply
\* committed to the conversation carries exactly that content.
C19_OutputIsAccumulator ==
    options.stream
        => /\ out = full_message.content
           /\ (IsInteractive /\ ret.op = "complete" /\ ret.ok)
               => /\ messages # <<>>
                  /\ messages[Len(messages)].content = out

\* C19 witness: a fragment that began with a newline was written without
\* it, and the reply was committed with the written content.
C19_Witness ==
    /\ options.stream /\ IsInteractive
    /\ ret.op = "complete" /\ ret.ok
    /\ out = <<"H">> /\ RawContent(deltas) # out
    /\ messages[Len(messages)].content = <<"H">>

\* the turns after the optional leading system turn
Exchanges(msgs) ==
    IF msgs # <<>> /\ msgs[1].role = SystemRole
    THEN SubSeq(msgs, 2, Len(msgs))
    ELSE msgs

\* complete exchanges only: a turn with role "user" at every odd position,
\* each followed by one more turn
CompleteExchanges(turnSeq) ==
    /\ Len(turnSeq) % 2 = 0
    /\ \A i \in 1..Len(turnSeq) : (i % 2 = 1) => turnSeq[i].role = UserRole

\* C20: whenever the interactive loop waits for a user prompt, the
\* conversation is an optional system turn followed by complete exchanges,
\* so no user turn is left as the last turn.
C20_CompleteExchangesAtPrompt ==
    pc = "read_user" => CompleteExchanges(Exchanges(messages))

====
